---- MODULE Spec2Model ----
(***************************************************************************)
(* Model of the Service class of the JSON document store (service.ts):     *)
(* identifier normalisation at construction, lookup, relation embedding,   *)
(* find, create, updateById and destroyById with nullify / dependents.     *)
(***************************************************************************)
EXTENDS Integers, Sequences, FiniteSets, TLC

VARIABLES
    db,          \* Low<Data>.data: collection name -> collection
    constructed, \* TRUE once new Service(db) has run
    call,        \* the last Service call: operation and arguments
    ret,         \* what that call returned
    persisted,   \* the snapshot the adapter holds: as loaded, then as last written
    nwrites,     \* number of db.write() calls issued so far
    status,      \* the status of the response to the call, 0 when there is none
    pending,     \* the db.write() calls in flight, in the order they were issued
    writing,     \* the flag of the file watcher: set by onWriteStart, reset by onWriteEnd
    watched      \* the last change of the file the watcher reported, and whether it read

vars == <<db, constructed, call, ret, persisted, nwrites, status, pending,
          writing, watched>>

----------------------------------------------------------------------------
(* Bounds of the model *)

MaxByte == 0      \* randomBytes draws each byte from 0..MaxByte
MaxLen == 3       \* create is not called on a list that already has MaxLen records
MaxWrites == 1    \* no mutating call is made once MaxWrites writes were issued

----------------------------------------------------------------------------
(* JavaScript values.  Every value has the same four fields so that values  *)
(* of different JavaScript types can be compared: = on them is ===.         *)

Undefined == [t |-> "undefined", s |-> "", n |-> 0, a |-> <<>>]
Null == [t |-> "null", s |-> "", n |-> 0, a |-> <<>>]
Str(s) == [t |-> "string", s |-> s, n |-> 0, a |-> <<>>]
Num(n) == [t |-> "number", s |-> "", n |-> n, a |-> <<>>]
Bool(b) == [t |-> "boolean", s |-> "", n |-> IF b THEN 1 ELSE 0, a |-> <<>>]
Arr(items) == [t |-> "array", s |-> "", n |-> 0, a |-> items]

(* An Item is a function from field names to values.  item[f] of JavaScript *)
(* is undefined for a field the item does not have.                         *)
NoItem == <<>>
Field(item, f) == IF f \in DOMAIN item THEN item[f] ELSE Undefined

(* { ...a, ...b } *)
Spread(a, b) ==
    [f \in (DOMAIN a) \cup (DOMAIN b) |-> IF f \in DOMAIN b THEN b[f] ELSE a[f]]

(* item[f] = v, as an assignment to one field *)
SetField(item, f, v) ==
    [g \in (DOMAIN item) \cup {f} |-> IF g = f THEN v ELSE item[g]]

(* Number.prototype.toString, on integers *)
Digit == <<"0", "1", "2", "3", "4", "5", "6", "7", "8", "9">>

RECURSIVE NatToString(_)
NatToString(n) ==
    IF n < 10 THEN Digit[n + 1]
    ELSE NatToString(n \div 10) \o Digit[(n % 10) + 1]

NumberToString(n) == IF n < 0 THEN "-" \o NatToString(0 - n) ELSE NatToString(n)

(* Buffer.toString('hex') *)
HexDigit == <<"0", "1", "2", "3", "4", "5", "6", "7",
              "8", "9", "a", "b", "c", "d", "e", "f">>

ByteToHex(b) == HexDigit[(b \div 16) + 1] \o HexDigit[(b % 16) + 1]

RECURSIVE BytesToHex(_)
BytesToHex(bytes) ==
    IF bytes = <<>> THEN "" ELSE ByteToHex(Head(bytes)) \o BytesToHex(Tail(bytes))

(* randomBytes(size): the buffers the random source may return *)
randomBytes(size) == [1..size -> 0..MaxByte]

(* randomId that encodes one byte of the buffer only *)
randomId_oneByte(bytes) == ByteToHex(bytes[1])

(* randomId, for the buffer the random source returned *)
randomId(bytes) == BytesToHex(bytes)

(* the buffers a call of randomId may draw *)
RandomDraws == randomBytes(2)

----------------------------------------------------------------------------
(* Collections and results.  A value of Data is an array of items or one    *)
(* item; a result may also be undefined, a value inherited from             *)
(* Object.prototype, or a thrown TypeError.                                 *)

List(items) == [kind |-> "array", items |-> items, value |-> NoItem]
Obj(item) == [kind |-> "item", items |-> <<>>, value |-> item]
UndefinedResult == [kind |-> "undefined", items |-> <<>>, value |-> NoItem]
FunctionResult == [kind |-> "function", items |-> <<>>, value |-> NoItem]
TypeError == [kind |-> "TypeError", items |-> <<>>, value |-> NoItem]
WriteError == [kind |-> "WriteError", items |-> <<>>, value |-> NoItem]

isArray(v) == v.kind = "array"

(* property names every plain object inherits from Object.prototype *)
ProtoNames == {"constructor"}

(* db.data[name] *)
get(data, name) ==
    IF name \in DOMAIN data THEN data[name]
    ELSE IF name \in ProtoNames THEN FunctionResult
    ELSE UndefinedResult

(* Object.prototype.hasOwnProperty.call(db.data, name) *)
has(data, name) == name \in DOMAIN data

(* inflection.singularize, on the collection names of the model *)
singularize(name) ==
    CASE name = "posts" -> "post"
      [] name = "comments" -> "comment"
      [] OTHER -> name

foreignKeyOf(name) == singularize(name) \o "Id"

(* a string | string[] | undefined argument *)
NoArg == [t |-> "undefined", s |-> "", a |-> <<>>]
StrArg(s) == [t |-> "string", s |-> s, a |-> <<>>]
ArrArg(a) == [t |-> "array", s |-> "", a |-> a]

ensureArray(arg) ==
    IF arg.t = "undefined" THEN <<>>
    ELSE IF arg.t = "array" THEN arg.a
    ELSE <<arg.s>>

Range(seq) == {seq[i] : i \in DOMAIN seq}

(* Array.prototype.find: index of the first match, 0 when there is none *)
FindIndex(items, id) ==
    IF \E i \in DOMAIN items : Field(items[i], "id") = Str(id)
    THEN CHOOSE i \in DOMAIN items :
            /\ Field(items[i], "id") = Str(id)
            /\ \A j \in 1..(i - 1) : Field(items[j], "id") # Str(id)
    ELSE 0

(* Array.prototype.splice(index, 1) *)
RemoveAt(items, index) ==
    [i \in 1..(Len(items) - 1) |-> IF i < index THEN items[i] ELSE items[i + 1]]

----------------------------------------------------------------------------
(* Identifier normalisation *)

(* fixItemsIds that generates an id for every id that is not a string *)
fixItemId_regenerates(item, bytes) ==
    IF Field(item, "id").t # "string"
    THEN SetField(item, "id", Str(randomId(bytes)))
    ELSE item

(* the body of the forEach of fixItemsIds for one item; bytes is the buffer *)
(* randomId draws if it is called                                           *)
fixItemId(item, bytes) ==
    LET stringified ==
            IF Field(item, "id").t = "number"
            THEN SetField(item, "id", Str(NumberToString(item["id"].n)))
            ELSE item
    IN  IF Field(stringified, "id") = Undefined
        THEN SetField(stringified, "id", Str(randomId(bytes)))
        ELSE stringified

(* draws[i] is the buffer drawn for items[i] *)
fixItemsIds(items, draws) ==
    [i \in DOMAIN items |-> fixItemId(items[i], draws[i])]

(* draws[name][i] is the buffer drawn for record i of collection name *)
fixAllItemsIds(data, draws) ==
    [name \in DOMAIN data |->
        IF isArray(data[name])
        THEN List(fixItemsIds(data[name].items, draws[name]))
        ELSE data[name]]

----------------------------------------------------------------------------
(* Relations *)

(* relatedData.filter(relatedItem => relatedItem[foreignKey] === item.id) *)
relatedItemsOf(relatedData, foreignKey, item) ==
    SelectSeq(relatedData, LAMBDA relatedItem :
                  Field(relatedItem, foreignKey) = Field(item, "id"))

(* embed: the item with the related records attached; the item itself when  *)
(* db.data[related] is falsy; a TypeError when db.data[related] is truthy   *)
(* and has no filter method (a singleton, an inherited property)            *)
embed(data, name, item, related) ==
    LET relatedData == get(data, related)
    IN  IF relatedData.kind = "undefined" THEN Obj(item)
        ELSE IF ~isArray(relatedData) THEN TypeError
        ELSE Obj(SetField(item, related,
                 Arr(relatedItemsOf(relatedData.items, foreignKeyOf(name), item))))

(* ensureArray(query._embed).forEach(related => item = embed(...)) *)
RECURSIVE embedEach(_, _, _, _)
embedEach(data, name, result, relateds) ==
    IF relateds = <<>> \/ result.kind # "item" THEN result
    ELSE embedEach(data, name,
                   embed(data, name, result.value, Head(relateds)),
                   Tail(relateds))

(* nullifyForeignKey that builds the foreign key from the plural name *)
nullifyForeignKey_plural(data, name, id) ==
    LET foreignKey == name \o "Id"
    IN  [key \in DOMAIN data |->
            IF key = name THEN data[key]
            ELSE IF isArray(data[key])
            THEN List([i \in DOMAIN data[key].items |->
                        LET item == data[key].items[i]
                        IN  IF Field(item, foreignKey) = Str(id)
                            THEN SetField(item, foreignKey, Null)
                            ELSE item])
            ELSE data[key]]

(* nullifyForeignKey: the data after the references to id were set to null *)
nullifyForeignKey(data, name, id) ==
    LET foreignKey == foreignKeyOf(name)
    IN  [key \in DOMAIN data |->
            IF key = name THEN data[key]
            ELSE IF isArray(data[key])
            THEN List([i \in DOMAIN data[key].items |->
                        LET item == data[key].items[i]
                        IN  IF Field(item, foreignKey) = Str(id)
                            THEN SetField(item, foreignKey, Null)
                            ELSE item])
            ELSE data[key]]

(* deleteDependents without the Array.isArray test, which would make a list *)
(* of a dependent that is a singleton                                      *)
deleteDependents_anyKind(data, name, dependents) ==
    LET foreignKey == foreignKeyOf(name)
    IN  [key \in DOMAIN data |->
            IF key \notin Range(dependents) THEN data[key]
            ELSE List(SelectSeq(data[key].items,
                        LAMBDA item : Field(item, foreignKey) # Null))]

(* deleteDependents that filters with != null, which undefined fails too *)
deleteDependents_loose(data, name, dependents) ==
    LET foreignKey == foreignKeyOf(name)
    IN  [key \in DOMAIN data |->
            IF key \notin Range(dependents) THEN data[key]
            ELSE IF isArray(data[key])
            THEN List(SelectSeq(data[key].items,
                        LAMBDA item : Field(item, foreignKey) \notin {Null, Undefined}))
            ELSE data[key]]

(* deleteDependents: the data after the dependents were filtered *)
deleteDependents(data, name, dependents) ==
    LET foreignKey == foreignKeyOf(name)
    IN  [key \in DOMAIN data |->
            IF key \notin Range(dependents) THEN data[key]
            ELSE IF isArray(data[key])
            THEN List(SelectSeq(data[key].items,
                        LAMBDA item : Field(item, foreignKey) # Null))
            ELSE data[key]]

----------------------------------------------------------------------------
(* The inputs of the model *)

Names == {"posts", "comments", "object", "xxx", "constructor"}
ListNames == {"posts", "comments"}
IdArgs == {"1", "0000", "xxx"}

(* the arguments tried with a collection name: all of them on the names of  *)
(* the list collections, the first one on the other names                   *)
IdsFor(name) == IF name \in ListNames THEN IdArgs ELSE {"1"}
ArgsFor(name, args, first) == IF name \in ListNames THEN args ELSE {first}

(* a filter key of a query: <field> or <field>_<op>, with its values *)
Filter(field, op, values) == [field |-> field, op |-> op, values |-> values]

(* a query: _embed, the filter keys, _sort, _page and _per_page *)
Query(e, f, s, p, pp) ==
    [embed |-> e, filter |-> f, sort |-> s, page |-> p, per_page |-> pp]

NoQuery == Query(NoArg, <<>>, Undefined, Undefined, Undefined)

EmbedArgs ==
    {ArrArg(<<"comments">>), StrArg("comments"), ArrArg(<<"post">>),
     ArrArg(<<"xxx", "object">>), StrArg("constructor")}

EmbedQuery == Query(ArrArg(<<"comments">>), <<>>, Undefined, Undefined, Undefined)

FindByIdQueries == {NoQuery} \cup
    {Query(e, <<>>, Undefined, Undefined, Undefined) : e \in EmbedArgs}

Filters ==
    {<<Filter("views", "lt", <<"300">>)>>,
     <<Filter("id", "", <<"1">>)>>,
     <<Filter("views", "", <<"100", "300">>)>>,
     <<Filter("views", "gte", <<"200">>), Filter("title", "ne", <<"c">>)>>}

FindQueries == FindByIdQueries \cup
    {Query(NoArg, f, Undefined, Undefined, Undefined) : f \in Filters} \cup
    {Query(NoArg, <<>>, Str("views"), Undefined, Undefined),
     Query(NoArg, <<>>, Str("-views"), Undefined, Undefined),
     Query(NoArg, <<>>, Str("title,-views"), Undefined, Undefined),
     Query(NoArg, <<>>, Undefined, Num(1), Num(2)),
     Query(NoArg, <<>>, Undefined, Num(0), Num(0)),
     Query(NoArg, <<Filter("views", "lt", <<"300">>)>>, Undefined, Num(2), Num(1))}

NewPost == [title |-> Str("new post")]

CreateData ==
    {NewPost,
     [id |-> Str("1"), title |-> Str("new post")]}

UpdateBodies ==
    {[id |-> Str("xxx"), title |-> Str("updated post")],
     [title |-> Str("updated post")],
     [postId |-> Null]}

DependentArgs ==
    {NoArg, StrArg("comments"), ArrArg(<<"posts">>),
     ArrArg(<<"comments", "object", "xxx">>)}

Call(op, name, id, item, arg, query, draw) ==
    [op |-> op, name |-> name, id |-> id, item |-> item, arg |-> arg,
     query |-> query, draw |-> draw]

----------------------------------------------------------------------------
(* The snapshots a Service is constructed on *)

post1 == [id |-> Str("1"), title |-> Str("a"), views |-> Num(100)]
post2 == [id |-> Str("2"), title |-> Str("b"), views |-> Num(200)]
post3 == [id |-> Str("3"), title |-> Str("c"), views |-> Num(300)]
comment1 == [id |-> Str("1"), title |-> Str("a"), postId |-> Str("1")]
obj == [f1 |-> Str("foo")]

Data(posts, comments, object) ==
    [name \in {"posts", "comments", "object"} |->
        CASE name = "posts" -> List(posts)
          [] name = "comments" -> List(comments)
          [] OTHER -> Obj(object)]

(* the ids a snapshot may hold, besides no id at all: the posts of a       *)
(* snapshot take theirs from one of these lists                            *)
SnapshotIds ==
    {<<Num(1), Null, Str("")>>, <<Num(0 - 12), Bool(TRUE), Str("0000")>>}

Snapshots ==
    {Data(<<post1, post2, post3>>, <<comment1>>, obj),
     Data(<<[id |-> Str("1"), title |-> Str("foo")]>>,
          <<[id |-> Str("1"), postId |-> Str("1")]>>, obj),
     [name \in {"posts", "object"} |->
        IF name = "posts" THEN List(<<[id |-> Str("1")], NoItem>>) ELSE Obj(NoItem)],
     Data(<<[id |-> Str("1"), title |-> Str("a")], [id |-> Str("1"), title |-> Str("b"), postId |-> Null]>>,
          <<[id |-> Str("1"), postId |-> Str("1")], [id |-> Str("2"), postId |-> Null],
            [id |-> Str("3")]>>, obj)}
    \cup
    {Data([i \in DOMAIN ids |-> [id |-> ids[i], title |-> Str("a")]],
          <<[id |-> Num(2), postId |-> Str("1")], [postId |-> Null]>>, obj) :
        ids \in SnapshotIds}

----------------------------------------------------------------------------
(* The Service *)

(* no call is in progress: the next one may be made *)
Idle == Call("", "", "", NoItem, NoArg, NoQuery, <<>>)

(* a change of the file the watcher reported: its cause, a write of the     *)
(* server ("own") or an edit from outside ("external"), and whether the     *)
(* handler of the event called db.read()                                    *)
Change(cause, read) == [cause |-> cause, read |-> read]

NoChange == Change("none", FALSE)

Init ==
    /\ db \in Snapshots
    /\ constructed = FALSE
    /\ call = Idle
    /\ ret = UndefinedResult
    /\ persisted = db
    /\ nwrites = 0
    /\ status = 0
    /\ pending = <<>>
    /\ writing = FALSE
    /\ watched = NoChange

(* the records fixItemsIds calls randomId for *)
NeedsId(data) ==
    {<<name, i>> \in (DOMAIN data) \X (1..MaxLen) :
        /\ isArray(data[name])
        /\ i \in DOMAIN data[name].items
        /\ Field(data[name].items[i], "id") = Undefined}

(* new Service(db) *)
constructor ==
    /\ ~constructed
    /\ \E d \in [NeedsId(db) -> RandomDraws] :
        LET draws == [name \in DOMAIN db |-> [i \in 1..MaxLen |->
                        IF <<name, i>> \in NeedsId(db) THEN d[<<name, i>>]
                        ELSE <<0, 0>>]]
        IN  db' = fixAllItemsIds(db, draws)
    /\ constructed' = TRUE
    /\ UNCHANGED <<call, ret, persisted, nwrites, status, pending, writing, watched>>

(* the final middleware of the application: 404 when the handler left no   *)
(* data, 201 for the data of a POST, else 200; an error thrown by the      *)
(* handler never reaches it and is answered 500                            *)
statusOf(method, data) ==
    IF data.kind \in {"TypeError", "WriteError"} THEN 500
    ELSE IF data.kind = "undefined" THEN 404
    ELSE IF method = "POST" THEN 201
    ELSE 200

(* afterFind for an embed that would assign the related records to the     *)
(* stored record itself                                                    *)
afterFind_inPlace(data, name, result) ==
    IF name \notin DOMAIN data \/ ~isArray(data[name]) THEN data
    ELSE IF result.kind = "array" THEN [data EXCEPT ![name] = result]
    ELSE IF result.kind = "item"
    THEN [data EXCEPT ![name] = List([i \in DOMAIN data[name].items |->
            IF Field(data[name].items[i], "id") = Field(result.value, "id")
            THEN result.value ELSE data[name].items[i]])]
    ELSE data

(* the data after find or findById returned result: embed builds a new     *)
(* object ({ ...item }) and items.map a new array, so the stored records    *)
(* are not touched                                                         *)
afterFind(data, name, result) == data

(* Write for a call that would issue its write before it edits the data    *)
Write_beforeEdit(c, result, data) == [call |-> c, ret |-> result, data |-> db]

(* the write a mutating call issues: db.write() hands the data to the      *)
(* adapter; the call returns result once the write has succeeded           *)
Write(c, result, data) == [call |-> c, ret |-> result, data |-> data]

(* observer.onWriteStart, which Observer.write calls before the write of   *)
(* the adapter: writing = true                                             *)
onWriteStart == TRUE

(* the flag once a write has ended: Observer.write calls onWriteEnd, which *)
(* sets writing = false, after the awaited write of the adapter, so not    *)
(* when that write throws                                                  *)
onWriteEnd(flag, ok) == IF ok THEN FALSE ELSE flag

(* the value findById returns *)
findByIdResult(data, name, id, query) ==
    LET value == get(data, name)
    IN  IF isArray(value)
        THEN LET index == FindIndex(value.items, id)
             IN  IF index = 0 THEN UndefinedResult
                 ELSE embedEach(data, name, Obj(value.items[index]),
                                ensureArray(query.embed))
        ELSE UndefinedResult

findById ==
    /\ constructed
    /\ call = Idle
    /\ \E name \in Names :
       \E id \in IdsFor(name), query \in ArgsFor(name, FindByIdQueries, EmbedQuery) :
        /\ call' = Call("findById", name, id, NoItem, NoArg, query, <<>>)
        /\ ret' = findByIdResult(db, name, id, query)
        /\ db' = afterFind(db, name, ret')
    /\ status' = statusOf("GET", ret')
    /\ UNCHANGED <<constructed, persisted, nwrites, pending, writing, watched>>

(* items = items.map(item => embed(db, name, item, related)) *)
embedAll(data, name, result, related) ==
    IF result.kind # "array" THEN result
    ELSE IF \E i \in DOMAIN result.items :
                embed(data, name, result.items[i], related).kind = "TypeError"
    THEN TypeError
    ELSE List([i \in DOMAIN result.items |->
                embed(data, name, result.items[i], related).value])

RECURSIVE embedAllEach(_, _, _, _)
embedAllEach(data, name, result, relateds) ==
    IF relateds = <<>> THEN result
    ELSE embedAllEach(data, name, embedAll(data, name, result, Head(relateds)),
                      Tail(relateds))

(* the value find returns: the collection as it is when it is not an array, *)
(* else the items with the related records embedded; the query's filter,    *)
(* sort and pagination keys are not read                                    *)
findResult(data, name, query) ==
    LET items == get(data, name)
    IN  IF ~isArray(items) THEN items
        ELSE embedAllEach(data, name, items, ensureArray(query.embed))

find ==
    /\ constructed
    /\ call = Idle
    /\ \E name \in Names :
       \E query \in ArgsFor(name, FindQueries, NoQuery) :
        /\ call' = Call("find", name, "", NoItem, NoArg, query, <<>>)
        /\ ret' = findResult(db, name, query)
        /\ db' = afterFind(db, name, ret')
    /\ status' = statusOf("GET", ret')
    /\ UNCHANGED <<constructed, persisted, nwrites, pending, writing, watched>>

(* { id: randomId(), ...data } *)
createItem(bytes, data) == Spread([id |-> Str(randomId(bytes))], data)

create ==
    /\ constructed
    /\ call = Idle
    /\ \E name \in Names :
       \E data \in ArgsFor(name, CreateData, NewPost) :
        LET items == get(db, name)
        IN  IF ~isArray(items)
            THEN /\ call' = Call("create", name, "", data, NoArg, NoQuery, <<>>)
                 /\ ret' = UndefinedResult
                 /\ status' = statusOf("POST", ret')
                 /\ UNCHANGED <<db, nwrites, pending, writing>>
            ELSE /\ Len(items.items) < MaxLen
                 /\ \E bytes \in RandomDraws :
                      LET item == createItem(bytes, data)
                      IN  /\ call' = Call("create", name, "", data, NoArg, NoQuery, bytes)
                          /\ db' = [db EXCEPT ![name] = List(Append(items.items, item))]
                          /\ ret' = Obj(item)
                 /\ pending' = Append(pending, Write(call', ret', db'))
                 /\ nwrites' = nwrites + 1
                 /\ writing' = onWriteStart
                 /\ status' = 0
    /\ UNCHANGED <<constructed, persisted, watched>>

(* { ...item, id, ...body } *)
updateItem_bodyLast(item, body, id) == Spread(SetField(item, "id", Str(id)), body)

(* { ...item, ...body, id } *)
updateItem(item, body, id) == SetField(Spread(item, body), "id", Str(id))

updateById ==
    /\ constructed
    /\ call = Idle
    /\ \E name \in Names :
       \E id \in IdsFor(name), body \in ArgsFor(name, UpdateBodies, NewPost) :
        LET items == get(db, name)
            index == IF isArray(items) THEN FindIndex(items.items, id) ELSE 0
        IN  /\ call' = Call("updateById", name, id, body, NoArg, NoQuery, <<>>)
            /\ IF index = 0
               THEN /\ ret' = UndefinedResult
                    /\ status' = statusOf("PUT", ret')
                    /\ UNCHANGED <<db, nwrites, pending, writing>>
               ELSE LET nextItem == updateItem(items.items[index], body, id)
                    IN  /\ db' = [db EXCEPT ![name] =
                                    List([items.items EXCEPT ![index] = nextItem])]
                        /\ ret' = Obj(nextItem)
                        /\ pending' = Append(pending, Write(call', ret', db'))
                        /\ nwrites' = nwrites + 1
                        /\ writing' = onWriteStart
                        /\ status' = 0
    /\ UNCHANGED <<constructed, persisted, watched>>

destroyById ==
    /\ constructed
    /\ call = Idle
    /\ \E name \in Names :
       \E id \in IdsFor(name), dependent \in ArgsFor(name, DependentArgs, NoArg) :
        LET items == get(db, name)
            index == IF isArray(items) THEN FindIndex(items.items, id) ELSE 0
        IN  /\ call' = Call("destroyById", name, id, NoItem, dependent, NoQuery, <<>>)
            /\ IF index = 0
               THEN /\ ret' = UndefinedResult
                    /\ status' = statusOf("DELETE", ret')
                    /\ UNCHANGED <<db, nwrites, pending, writing>>
               ELSE LET removed == [db EXCEPT ![name] =
                                        List(RemoveAt(items.items, index))]
                        nullified == nullifyForeignKey(removed, name, id)
                    IN  /\ db' = deleteDependents(nullified, name,
                                                  ensureArray(dependent))
                        /\ ret' = Obj(items.items[index])
                        /\ pending' = Append(pending, Write(call', ret', db'))
                        /\ nwrites' = nwrites + 1
                        /\ writing' = onWriteStart
                        /\ status' = 0
    /\ UNCHANGED <<constructed, persisted, watched>>

(* the HTTP method of the route that makes the call; a request no route   *)
(* matches has its method as op                                            *)
methodOf(op) ==
    CASE op \in {"find", "findById"} -> "GET"
      [] op = "create" -> "POST"
      [] op = "updateById" -> "PUT"
      [] op = "destroyById" -> "DELETE"
      [] OTHER -> op

(* afterWrite for a call that would undo its edit when its write fails, by *)
(* taking back what the adapter holds                                      *)
afterWrite_rollback(data, written, stored, ok) == IF ok THEN data ELSE stored

(* afterWrite for a call that would take the data it wrote as the data     *)
(* once its write has succeeded                                            *)
afterWrite_reload(data, written, stored, ok) == IF ok THEN written ELSE data

(* the data once the write issued with written has ended, stored being     *)
(* what the adapter held before: the handler resumes after the await and   *)
(* returns, or the error propagates; the data is not touched               *)
afterWrite(data, written, stored, ok) == data

(* a db.write() ends, in success or in failure: the call that awaits it    *)
(* returns its result or throws the error of the write, and is answered    *)
writeEnd ==
    /\ call = Idle
    /\ \E i \in DOMAIN pending, ok \in BOOLEAN :
        /\ pending' = RemoveAt(pending, i)
        /\ persisted' = IF ok THEN pending[i].data ELSE persisted
        /\ db' = afterWrite(db, pending[i].data, persisted, ok)
        /\ call' = pending[i].call
        /\ ret' = IF ok THEN pending[i].ret ELSE WriteError
        /\ status' = statusOf(methodOf(pending[i].call.op), ret')
        /\ writing' = onWriteEnd(writing, ok)
    /\ UNCHANGED <<constructed, nwrites, watched>>

(* the turn of the handler ends: its response, if it has one, is sent, or  *)
(* it is suspended at its await; the next call may be made                 *)
respond ==
    /\ call # Idle
    /\ call' = Idle
    /\ ret' = UndefinedResult
    /\ status' = 0
    /\ UNCHANGED <<db, constructed, persisted, nwrites, pending, writing, watched>>

(* a boolean a call returns *)
BoolResult(b) == [kind |-> IF b THEN "true" ELSE "false", items |-> <<>>,
                  value |-> NoItem]

(* service.has(name): no route of the application calls it *)
hasCall ==
    /\ constructed
    /\ call = Idle
    /\ \E name \in Names :
        /\ call' = Call("has", name, "", NoItem, NoArg, NoQuery, <<>>)
        /\ ret' = BoolResult(has(db, name))
    /\ status' = 0
    /\ UNCHANGED <<db, constructed, persisted, nwrites, pending, writing, watched>>

(* service.update(name, body): the class Service has no member update, so  *)
(* the call is a call of undefined and throws a TypeError                  *)
update ==
    /\ constructed
    /\ call = Idle
    /\ \E name \in {"object", "posts", "xxx"} :
        /\ call' = Call("update", name, "", [f1 |-> Str("bar")], NoArg, NoQuery, <<>>)
        /\ ret' = TypeError
    /\ status' = 0
    /\ UNCHANGED <<db, constructed, persisted, nwrites, pending, writing, watched>>

(* the requests no route of the application matches: a PATCH, a PUT or a   *)
(* DELETE on /:name, a POST on /:name/:id; no handler runs, res.locals.data *)
(* stays undefined and the final middleware answers                        *)
Unrouted ==
    {<<"PATCH", "">>, <<"PATCH", "1">>, <<"PATCH", "xxx">>, <<"PUT", "">>,
     <<"POST", "1">>, <<"DELETE", "">>}

unrouted ==
    /\ constructed
    /\ call = Idle
    /\ \E name \in {"posts", "object", "xxx"}, request \in Unrouted :
        /\ call' = Call(request[1], name, request[2], NoItem, NoArg, NoQuery, <<>>)
        /\ ret' = UndefinedResult
        /\ status' = statusOf(request[1], ret')
    /\ UNCHANGED <<db, constructed, persisted, nwrites, pending, writing, watched>>

(* the caller awaits each mutating call before it makes its next call, and *)
(* makes no mutating call once MaxWrites writes were issued                *)
Next ==
    \/ constructor
    \/ pending = <<>> /\ findById
    \/ pending = <<>> /\ find
    \/ pending = <<>> /\ hasCall
    \/ pending = <<>> /\ nwrites < MaxWrites /\ create
    \/ pending = <<>> /\ update
    \/ pending = <<>> /\ nwrites < MaxWrites /\ updateById
    \/ pending = <<>> /\ nwrites < MaxWrites /\ destroyById
    \/ pending = <<>> /\ unrouted
    \/ writeEnd
    \/ respond

Spec == Init /\ [][Next]_vars

(* Callers that do not await: a call may be made while the writes of       *)
(* earlier calls are pending, one write more than MaxWrites being issued;  *)
(* the calls are those of the posts and comments of the application's test *)
OverlapSnapshots ==
    {Data(<<[id |-> Str("1"), title |-> Str("foo")]>>,
          <<[id |-> Str("1"), postId |-> Str("1")]>>, obj)}

InitOverlap == Init /\ db \in OverlapSnapshots

NextOverlap ==
    \/ constructor
    \/ findById /\ call'.name = "posts" /\ call'.query = NoQuery
    \/ find /\ call'.name = "comments" /\ call'.query = NoQuery
    \/ nwrites <= MaxWrites /\ create /\ call'.name = "posts" /\ call'.item = NewPost
    \/ nwrites <= MaxWrites /\ updateById /\ call'.name = "posts"
            /\ call'.item = [title |-> Str("updated post")]
    \/ nwrites <= MaxWrites /\ destroyById /\ call'.name = "posts"
            /\ call'.arg = StrArg("comments")
    \/ writeEnd
    \/ respond

SpecOverlap == InitOverlap /\ [][NextOverlap]_vars

(* Callers that do not await, with writes that end in the order they were  *)
(* issued and never fail                                                   *)
NextOrdered ==
    \/ constructor
    \/ findById /\ call'.name = "posts" /\ call'.query = NoQuery
    \/ find /\ call'.name = "comments" /\ call'.query = NoQuery
    \/ nwrites <= MaxWrites /\ create /\ call'.name = "posts" /\ call'.item = NewPost
    \/ nwrites <= MaxWrites /\ updateById /\ call'.name = "posts"
            /\ call'.item = [title |-> Str("updated post")]
    \/ nwrites <= MaxWrites /\ destroyById /\ call'.name = "posts"
            /\ call'.arg = StrArg("comments")
    \/ writeEnd /\ pending' = Tail(pending) /\ ret' # WriteError
    \/ respond

SpecOrdered == InitOverlap /\ [][NextOrdered]_vars

(* The file watcher of the command line: the files an editor saves over    *)
(* the file of the server, one of them with a number as id and a record    *)
(* without id                                                              *)
ExternalFiles ==
    {Data(<<[id |-> Str("1"), title |-> Str("foo")]>>,
          <<[id |-> Str("1"), postId |-> Str("1")]>>, obj),
     Data(<<[id |-> Num(1), title |-> Str("foo")], [title |-> Str("bar")]>>,
          <<[id |-> Str("1"), postId |-> Str("1")]>>, obj)}

(* the handler of the change event: if (!writing) db.read(), which makes   *)
(* the content of the file the data, as it is in the file                  *)
onChange(data, flag, file) == IF flag THEN data ELSE file

(* the watcher reports the change a write in flight makes to the file; the *)
(* file holds what it held or what one of the writes in flight carries     *)
ownChange ==
    /\ constructed
    /\ call = Idle
    /\ pending # <<>>
    /\ \E file \in {persisted} \cup {pending[i].data : i \in DOMAIN pending} :
        db' = onChange(db, writing, file)
    /\ watched' = Change("own", ~writing)
    /\ UNCHANGED <<constructed, call, ret, persisted, nwrites, status, pending, writing>>

(* the file is saved from outside while no write is in flight, and the     *)
(* watcher reports the change                                              *)
externalChange ==
    /\ constructed
    /\ call = Idle
    /\ pending = <<>>
    /\ \E file \in ExternalFiles :
        /\ persisted' = file
        /\ db' = onChange(db, writing, file)
    /\ watched' = Change("external", ~writing)
    /\ UNCHANGED <<constructed, call, ret, nwrites, status, pending, writing>>

NextWatch ==
    \/ constructor
    \/ findById /\ call'.name = "posts" /\ call'.query = NoQuery
    \/ nwrites <= MaxWrites /\ create /\ call'.name = "posts" /\ call'.item = NewPost
    \/ nwrites <= MaxWrites /\ updateById /\ call'.name = "posts"
            /\ call'.item = [title |-> Str("updated post")]
    \/ writeEnd
    \/ respond
    \/ ownChange
    \/ externalChange

SpecWatch == InitOverlap /\ [][NextWatch]_vars

----------------------------------------------------------------------------
(* Steps and notions the properties are stated with *)

(* the step that runs the constructor *)
Constructs == ~constructed /\ constructed'

(* the step that makes a call: the step of writeEnd resumes one *)
Invokes == call = Idle /\ call' # Idle /\ Len(pending') >= Len(pending)

(* the step that makes a call of op *)
Calls(op) == Invokes /\ call'.op = op

IdOf(item) == Field(item, "id")

IsNonEmptyString(v) == v.t = "string" /\ v.s # ""

ListsOf(data) == {name \in DOMAIN data : isArray(data[name])}

AllIdsValid(data) ==
    \A name \in ListsOf(data) : \A i \in DOMAIN data[name].items :
        IsNonEmptyString(IdOf(data[name].items[i]))

(* the decimal representation of the numbers the snapshots hold as ids *)
DecimalOf(n) ==
    CASE n = 1 -> "1"
      [] n = 2 -> "2"
      [] n = 0 - 12 -> "-12"
      [] OTHER -> "?"

HexChars == {HexDigit[i] : i \in DOMAIN HexDigit}
FourHexDigits == {a \o b \o c \o d : a, b, c, d \in HexChars}

(* two items agree on every field but f *)
SameBut(old, new, f) ==
    /\ (DOMAIN new) \ {f} = (DOMAIN old) \ {f}
    /\ \A g \in (DOMAIN old) \ {f} : new[g] = old[g]

----------------------------------------------------------------------------
(* C1: after the construction of a Service on any loaded snapshot, every   *)
(* record of every list collection has an id that is a non-empty string.   *)
C1_IdsValidAfterConstruction ==
    (constructed /\ nwrites = 0) => AllIdsValid(db)

(* C2: the constructor keeps a string id as it is, replaces a number id by *)
(* the decimal string of that number, generates an id only for a record    *)
(* that has none, and changes no other field, no other id and no singleton *)
(* collection.                                                             *)
C2_NormalizationKeepsIds ==
    [][Constructs =>
        /\ DOMAIN db' = DOMAIN db
        /\ \A name \in DOMAIN db :
            /\ db'[name].kind = db[name].kind
            /\ ~isArray(db[name]) => db'[name] = db[name]
            /\ isArray(db[name]) =>
                /\ Len(db'[name].items) = Len(db[name].items)
                /\ \A i \in DOMAIN db[name].items :
                    LET old == db[name].items[i]
                        new == db'[name].items[i]
                    IN  /\ SameBut(old, new, "id")
                        /\ IdOf(old).t = "string" => IdOf(new) = IdOf(old)
                        /\ IdOf(old).t = "number" =>
                               IdOf(new) = Str(DecimalOf(IdOf(old).n))
                        /\ IdOf(old) = Undefined =>
                               /\ IdOf(new).t = "string"
                               /\ IdOf(new).s \in FourHexDigits
                        /\ IdOf(old).t \notin {"string", "number", "undefined"} =>
                               IdOf(new) = IdOf(old)]_vars

(* the constructor ran on a snapshot with a number id, which is now its    *)
(* decimal string, and with a record without id, which now has one         *)
C2_Witness ==
    /\ constructed /\ nwrites = 0
    /\ has(db, "comments")
    /\ \E i \in DOMAIN persisted["posts"].items :
        /\ IdOf(persisted["posts"].items[i]) = Num(0 - 12)
        /\ IdOf(db["posts"].items[i]) = Str("-12")
    /\ \E i \in DOMAIN persisted["comments"].items :
        /\ "id" \notin DOMAIN persisted["comments"].items[i]
        /\ IdOf(db["comments"].items[i]).t = "string"

(* C3: create on a list collection stores and returns a record whose id is *)
(* the freshly generated one, also when data has an id of its own; every   *)
(* other field is the field of data, and the record is appended as the     *)
(* last element, the earlier records unchanged.                            *)
C3_CreateMintsNewId ==
    [][(Calls("create") /\ isArray(get(db, call'.name))) =>
        LET name == call'.name
            data == call'.item
            item == ret'.value
        IN  /\ ret'.kind = "item"
            /\ IdOf(item) = Str(randomId(call'.draw))
            /\ SameBut(data, item, "id")
            /\ db'[name].items = Append(db[name].items, item)]_vars

(* C4, as claimed: the id of the record a successful create returns is a   *)
(* non-empty string distinct from the id of every record already in the    *)
(* collection.  Stated for data that has no id of its own, where the id is *)
(* the generated one.                                                      *)
C4_CreatedIdIsDistinct ==
    [][(Calls("create") /\ ret'.kind = "item" /\ "id" \notin DOMAIN call'.item) =>
        /\ IsNonEmptyString(IdOf(ret'.value))
        /\ \A i \in DOMAIN db[call'.name].items :
            IdOf(db[call'.name].items[i]) # IdOf(ret'.value)]_vars

(* C4, amended: the id of the record a successful create returns for data  *)
(* that has no id of its own is a non-empty string of four hexadecimal     *)
(* digits; it is drawn without a check against the ids of the collection.  *)
C4_CreatedIdIsHexString ==
    [][(Calls("create") /\ ret'.kind = "item" /\ "id" \notin DOMAIN call'.item) =>
        /\ IsNonEmptyString(IdOf(ret'.value))
        /\ IdOf(ret'.value).s \in FourHexDigits
        /\ Len(IdOf(ret'.value).s) = 4]_vars

(* a create returned a record whose generated id is the id of a record     *)
(* that was already in the collection                                      *)
C4_Witness ==
    /\ call.op = "create" /\ ret.kind = "item"
    /\ "id" \notin DOMAIN call.item
    /\ LET items == db[call.name].items
       IN  /\ items[Len(items)] = ret.value
           /\ \E i \in 1..(Len(items) - 1) : IdOf(items[i]) = IdOf(ret.value)

(* C5: a successful updateById returns a record whose id is the id         *)
(* argument, also when body has another id, whose other fields are the     *)
(* fields of the record overridden by the fields of body; the record is    *)
(* replaced at its index and nothing else changes.                         *)
C5_UpdateKeepsIdAndPlace ==
    [][(Calls("updateById") /\ ret'.kind = "item") =>
        LET name == call'.name
            body == call'.item
            index == FindIndex(db[name].items, call'.id)
            old == db[name].items[index]
            new == ret'.value
        IN  /\ index > 0
            /\ IdOf(new) = Str(call'.id)
            /\ DOMAIN new = (DOMAIN old) \cup (DOMAIN body) \cup {"id"}
            /\ \A f \in (DOMAIN body) \ {"id"} : new[f] = body[f]
            /\ \A f \in (DOMAIN old) \ ((DOMAIN body) \cup {"id"}) : new[f] = old[f]
            /\ Len(db'[name].items) = Len(db[name].items)
            /\ db'[name].items[index] = new
            /\ \A j \in (DOMAIN db[name].items) \ {index} :
                db'[name].items[j] = db[name].items[j]
            /\ DOMAIN db' = DOMAIN db
            /\ \A other \in (DOMAIN db) \ {name} : db'[other] = db[other]]_vars

(* an updateById whose body has an id other than the id argument returned  *)
(* the record, which is not the first of its collection                    *)
C5_Witness ==
    /\ call.op = "updateById" /\ ret.kind = "item"
    /\ "id" \in DOMAIN call.item /\ call.item["id"] # Str(call.id)
    /\ "title" \in DOMAIN call.item /\ ret.value["title"] = call.item["title"]
    /\ \E i \in DOMAIN db[call.name].items :
        i > 1 /\ db[call.name].items[i] = ret.value

(* the dependents a destroyById call names *)
DependentsOf(c) == Range(ensureArray(c.arg))

(* C6: a successful destroyById without dependents removes exactly the     *)
(* first record whose id is the id argument and returns it; afterwards no  *)
(* record of another list collection has the foreign key equal to that id  *)
(* (it is null where it was), no record is removed from another collection *)
(* and no other field of any record is changed.                            *)
C6_DestroyNullifiesForeignKeys ==
    [][(Calls("destroyById") /\ ret'.kind = "item" /\ DependentsOf(call') = {}) =>
        LET name == call'.name
            fk == foreignKeyOf(name)
            index == FindIndex(db[name].items, call'.id)
        IN  /\ index > 0
            /\ ret'.value = db[name].items[index]
            /\ db'[name].items = RemoveAt(db[name].items, index)
            /\ DOMAIN db' = DOMAIN db
            /\ \A key \in (DOMAIN db) \ {name} :
                /\ db'[key].kind = db[key].kind
                /\ ~isArray(db[key]) => db'[key] = db[key]
                /\ isArray(db[key]) =>
                    /\ Len(db'[key].items) = Len(db[key].items)
                    /\ \A i \in DOMAIN db[key].items :
                        LET old == db[key].items[i]
                            new == db'[key].items[i]
                        IN  /\ Field(new, fk) # Str(call'.id)
                            /\ Field(old, fk) = Str(call'.id) => Field(new, fk) = Null
                            /\ Field(old, fk) # Str(call'.id) => new = old
                            /\ DOMAIN new = DOMAIN old
                            /\ SameBut(old, new, fk)]_vars

(* destroyById('posts', '1') on the posts and the comment of the tests:    *)
(* the post is gone and the comment is left with postId null               *)
C6_Witness ==
    /\ call.op = "destroyById" /\ call.name = "posts" /\ call.id = "1"
    /\ has(db, "comments")
    /\ DependentsOf(call) = {}
    /\ ret = Obj(post1)
    /\ db["posts"].items = <<post2, post3>>
    /\ db["comments"].items =
            <<[id |-> Str("1"), title |-> Str("a"), postId |-> Null]>>

(* C7: a successful destroyById with dependents removes from every list    *)
(* collection it names every record whose foreign key is null after the    *)
(* nullify step, whether nulled by this call or null before it, and keeps  *)
(* the other records of those collections, unchanged and in their order;   *)
(* a collection it does not name loses no record (but the collection of    *)
(* the call, which loses the destroyed one).                               *)
C7_DependentsWithNullKeyRemoved ==
    [][(Calls("destroyById") /\ ret'.kind = "item") =>
        LET name == call'.name
            fk == foreignKeyOf(name)
            index == FindIndex(db[name].items, call'.id)
            rest == RemoveAt(db[name].items, index)
        IN  \A key \in ListsOf(db) :
              /\ isArray(db'[key])
              /\ (key \in DependentsOf(call') /\ key # name) =>
                    db'[key].items = SelectSeq(db[key].items, LAMBDA item :
                                        /\ Field(item, fk) # Null
                                        /\ Field(item, fk) # Str(call'.id))
              /\ (key \in DependentsOf(call') /\ key = name) =>
                    db'[key].items = SelectSeq(rest, LAMBDA item :
                                        Field(item, fk) # Null)
              /\ (key \notin DependentsOf(call') /\ key # name) =>
                    Len(db'[key].items) = Len(db[key].items)
              /\ (key \notin DependentsOf(call') /\ key = name) =>
                    db'[key].items = rest]_vars

(* destroyById('posts', '1', ['comments']) on comments with postId '1',    *)
(* with postId null and without postId: only the last comment is left      *)
C7_Witness ==
    /\ call.op = "destroyById" /\ call.name = "posts" /\ call.id = "1"
    /\ "comments" \in DependentsOf(call)
    /\ ret.kind = "item" /\ nwrites = 1
    /\ has(db, "comments")
    /\ db["comments"].items = <<[id |-> Str("3")]>>

(* C8: find, findById, create, updateById and destroyById called with a    *)
(* name that is not a key of the store return undefined and leave the      *)
(* store unchanged; so do findById, updateById and destroyById called on   *)
(* a list collection with an id no record of it has.                       *)
C8_UnknownNameOrIdIsUndefined ==
    [][(/\ Invokes
        /\ call'.op \in {"find", "findById", "create", "updateById", "destroyById"}
        /\ \/ ~has(db, call'.name)
           \/ /\ call'.op \in {"findById", "updateById", "destroyById"}
              /\ has(db, call'.name) /\ isArray(db[call'.name])
              /\ \A i \in DOMAIN db[call'.name].items :
                    IdOf(db[call'.name].items[i]) # Str(call'.id))
        => (ret' = UndefinedResult /\ db' = db)]_vars

(* the numbers the values of the filter keys may denote *)
QueryNumbers == {1, 100, 200, 300}

IsNumeric(s) == \E n \in QueryNumbers : NumberToString(n) = s
NumberOf(s) == CHOOSE n \in QueryNumbers : NumberToString(n) = s

(* the record's attribute compares true under op against the value: as     *)
(* numbers when both sides are numbers, else by strict equality            *)
Compares(v, op, s) ==
    LET numeric == IsNumeric(s) /\ (v.t = "number" \/ (v.t = "string" /\ IsNumeric(v.s)))
        x == IF v.t = "number" THEN v.n ELSE NumberOf(v.s)
        y == NumberOf(s)
    IN  IF numeric
        THEN CASE op = "lt" -> x < y
               [] op = "lte" -> x <= y
               [] op = "gt" -> x > y
               [] op = "gte" -> x >= y
               [] op = "ne" -> x # y
               [] OTHER -> x = y
        ELSE CASE op = "ne" -> v # Str(s)
               [] op = "" -> v = Str(s)
               [] OTHER -> FALSE

(* every key of the filter is satisfied by one of its values *)
Matches(item, filter) ==
    \A k \in DOMAIN filter :
        \E j \in DOMAIN filter[k].values :
            Compares(Field(item, filter[k].field), filter[k].op, filter[k].values[j])

Filtered(items, filter) == SelectSeq(items, LAMBDA item : Matches(item, filter))

(* C9: find on a list collection returns exactly the records that satisfy  *)
(* every filter key of the query, in their original order.                 *)
C9_FindFilters ==
    [][(/\ Calls("find") /\ isArray(get(db, call'.name))
        /\ call'.query.embed = NoArg /\ call'.query.sort = Undefined
        /\ call'.query.page = Undefined /\ call'.query.per_page = Undefined)
        => ret' = List(Filtered(db[call'.name].items, call'.query.filter))]_vars

AtLeastOne(n) == IF n < 1 THEN 1 ELSE n
CeilDiv(n, d) == (n + d - 1) \div d

(* the PaginatedItems of the records for _page and _per_page *)
PaginatedItems(records, p, pp) ==
    LET total == Len(records)
        page == AtLeastOne(p)
        perPage == AtLeastOne(pp)
        pages == AtLeastOne(CeilDiv(total, perPage))
        from == (page - 1) * perPage + 1
        to == IF page * perPage < total THEN page * perPage ELSE total
    IN  [kind |-> "PaginatedItems",
         items |-> SubSeq(records, from, to),
         value |-> [first |-> Num(1),
                    prev |-> IF page > 1 THEN Num(page - 1) ELSE Null,
                    next |-> IF page < pages THEN Num(page + 1) ELSE Null,
                    last |-> Num(pages),
                    pages |-> Num(pages),
                    items |-> Num(total)]]

(* C10: find on a list collection with _page and _per_page returns the     *)
(* PaginatedItems of the filtered records: first 1, pages and last the     *)
(* number of pages (at least 1), prev and next the neighbouring pages or   *)
(* null, items the number of filtered records and data the records of the  *)
(* page, page and per-page being at least 1.                               *)
C10_FindPaginates ==
    [][(/\ Calls("find") /\ isArray(get(db, call'.name))
        /\ call'.query.embed = NoArg /\ call'.query.sort = Undefined
        /\ call'.query.page.t = "number" /\ call'.query.per_page.t = "number")
        => ret' = PaginatedItems(Filtered(db[call'.name].items, call'.query.filter),
                                 call'.query.page.n, call'.query.per_page.n)]_vars

----------------------------------------------------------------------------
(* The order of find *)

(* a key of _sort: a field, descending when the field was prefixed by - *)
SortKey(field, desc) == [field |-> field, desc |-> desc]

(* the keys _sort names, the fields being separated by commas *)
SortKeys(sort) ==
    CASE sort = Undefined -> <<>>
      [] sort = Str("views") -> <<SortKey("views", FALSE)>>
      [] sort = Str("-views") -> <<SortKey("views", TRUE)>>
      [] sort = Str("title,-views") -> <<SortKey("title", FALSE), SortKey("views", TRUE)>>

(* the place of a string of the snapshots in the order of strings *)
StringRank(s) == CASE s = "a" -> 1 [] s = "b" -> 2 [] s = "c" -> 3
                   [] s = "foo" -> 4 [] s = "new post" -> 5
                   [] s = "updated post" -> 6 [] OTHER -> 0

RankedStrings == {"a", "b", "c", "foo", "new post", "updated post"}

(* the values the order of which the claim fixes *)
IsOrdered(v) == v.t = "number" \/ (v.t = "string" /\ v.s \in RankedStrings)

RankOf(v) == IF v.t = "number" THEN v.n ELSE StringRank(v.s)

(* negative when record a comes before record b under keys, 0 on a tie *)
RECURSIVE CompareBy(_, _, _)
CompareBy(a, b, keys) ==
    IF keys = <<>> THEN 0
    ELSE LET key == Head(keys)
             x == RankOf(Field(a, key.field))
             y == RankOf(Field(b, key.field))
         IN  IF x = y THEN CompareBy(a, b, Tail(keys))
             ELSE IF (x < y) # key.desc THEN 0 - 1 ELSE 1

(* the stable order of records under keys *)
SortedBy(records, keys) ==
    LET n == Len(records)
        p == CHOOSE q \in [1..n -> 1..n] :
                \A i, j \in 1..n : i < j =>
                    LET c == CompareBy(records[q[i]], records[q[j]], keys)
                    IN  c < 0 \/ (c = 0 /\ q[i] < q[j])
    IN  [i \in 1..n |-> records[p[i]]]

(* every record has a value of a known order in every field of keys *)
Sortable(records, keys) ==
    \A i \in DOMAIN records, k \in DOMAIN keys :
        /\ IsOrdered(Field(records[i], keys[k].field))
        /\ \A j \in DOMAIN records :
            Field(records[j], keys[k].field).t = Field(records[i], keys[k].field).t

(* C11: find on a list collection returns its records (here of a query     *)
(* without filter, pagination or embedding) in the stable order of the      *)
(* keys of _sort, the first key primary and a prefixed key descending, and  *)
(* in the order of insertion when _sort is absent.                          *)
C11_FindSorts ==
    [][(/\ Calls("find") /\ isArray(get(db, call'.name))
        /\ call'.query.embed = NoArg /\ call'.query.filter = <<>>
        /\ call'.query.page = Undefined /\ call'.query.per_page = Undefined
        /\ Sortable(db[call'.name].items, SortKeys(call'.query.sort)))
        => ret' = List(SortedBy(db[call'.name].items, SortKeys(call'.query.sort)))]_vars

----------------------------------------------------------------------------
(* Embedding *)

(* the records of children whose field key is the id of item, in order *)
ChildrenOf(children, key, item) ==
    SelectSeq(children, LAMBDA child : Field(child, key) = Field(item, "id"))

(* item with the children of every collection of relateds that is a list   *)
(* added under the name of the collection, and nothing added for a name    *)
(* that is no collection                                                   *)
RECURSIVE WithChildren(_, _, _, _)
WithChildren(data, name, item, relateds) ==
    IF relateds = <<>> THEN item
    ELSE LET related == Head(relateds)
             next == IF has(data, related)
                     THEN SetField(item, related,
                            Arr(ChildrenOf(data[related].items, foreignKeyOf(name), item)))
                     ELSE item
         IN  WithChildren(data, name, next, Tail(relateds))

(* the names _embed holds *)
Embeds(query) == ensureArray(query.embed)

(* every name of relateds is a list collection or no collection *)
ListsOrAbsent(data, relateds) ==
    \A i \in DOMAIN relateds : has(data, relateds[i]) => isArray(data[relateds[i]])

(* C12: findById and find (here of a query with _embed alone) on a list     *)
(* collection return each record with, for every name of _embed that is a   *)
(* list collection, an added field of that name holding the records of the  *)
(* collection whose {singular(name)}Id is the id of the record, in order,   *)
(* and with no added field for a name that is no collection.                *)
C12_EmbedsChildren ==
    [][(/\ Invokes /\ call'.op \in {"find", "findById"}
        /\ has(db, call'.name) /\ isArray(db[call'.name])
        /\ call'.query.filter = <<>> /\ call'.query.sort = Undefined
        /\ call'.query.page = Undefined /\ call'.query.per_page = Undefined
        /\ ListsOrAbsent(db, Embeds(call'.query)))
        => LET items == db[call'.name].items
               index == FindIndex(items, call'.id)
           IN  IF call'.op = "find"
               THEN ret' = List([i \in DOMAIN items |->
                            WithChildren(db, call'.name, items[i], Embeds(call'.query))])
               ELSE index # 0 =>
                    ret' = Obj(WithChildren(db, call'.name, items[index],
                                            Embeds(call'.query)))]_vars

(* a record as the value of a field *)
ObjVal(item) == [t |-> "object", s |-> "", n |-> 0, a |-> <<item>>]

(* C13: findById on comments with _embed ['post'] returns the comment with  *)
(* an added field post holding the record of posts whose id is the postId   *)
(* of the comment.                                                          *)
C13_EmbedsParent ==
    [][(/\ Calls("findById") /\ call'.name = "comments"
        /\ call'.query.embed = ArrArg(<<"post">>)
        /\ has(db, "comments") /\ isArray(db["comments"])
        /\ has(db, "posts") /\ isArray(db["posts"])
        /\ FindIndex(db["comments"].items, call'.id) # 0)
        => LET comment == db["comments"].items[FindIndex(db["comments"].items, call'.id)]
               parent == FindIndex(db["posts"].items, Field(comment, "postId").s)
           IN  (Field(comment, "postId").t = "string" /\ parent # 0)
                => ret' = Obj(SetField(comment, "post",
                                       ObjVal(db["posts"].items[parent])))]_vars

----------------------------------------------------------------------------
(* update *)

(* C14: update(name, data) on a singleton collection makes data the value   *)
(* of the collection and returns data; on a list collection or a name that  *)
(* is no collection it returns undefined and changes nothing.               *)
C14_UpdateReplacesSingleton ==
    [][Calls("update")
        => IF has(db, call'.name) /\ db[call'.name].kind = "item"
           THEN /\ ret' = Obj(call'.item)
                /\ db' = [db EXCEPT ![call'.name] = Obj(call'.item)]
           ELSE /\ ret' = UndefinedResult
                /\ db' = db]_vars

----------------------------------------------------------------------------
(* Failure *)

(* the names a call passes: its target, the names of _embed and of the     *)
(* dependents                                                              *)
NamesOf(c) == {c.name} \cup Range(Embeds(c.query)) \cup Range(ensureArray(c.arg))

(* C15: find, findById, create, updateById and destroyById never throw for  *)
(* a name that is absent from the data, a list collection or a singleton    *)
(* collection, be it the target, a name of _embed or a dependent: a call    *)
(* that fails returns undefined.                                            *)
C15_NoCallThrows ==
    [][(/\ Invokes
        /\ call'.op \in {"find", "findById", "create", "updateById", "destroyById"}
        /\ NamesOf(call') \cap ProtoNames = {})
        => ret'.kind \in {"undefined", "item", "array"}]_vars

----------------------------------------------------------------------------
(* Reads *)

(* C16: find, findById and has leave the data and what the adapter holds    *)
(* as they were, whatever the query, so that the same findById made again   *)
(* returns an equal result.                                                 *)
C16_ReadsLeaveStoreUnchanged ==
    [][(Invokes /\ call'.op \in {"find", "findById", "has"})
        => /\ db' = db
           /\ persisted' = persisted
           /\ call'.op = "findById"
                => findByIdResult(db', call'.name, call'.id, call'.query) = ret']_vars

(* a findById has returned a record with its comments embedded *)
C16_Witness ==
    /\ call.op = "findById" /\ call.name = "posts"
    /\ ret.kind = "item"
    /\ Field(ret.value, "comments").t = "array"
    /\ Len(Field(ret.value, "comments").a) > 0
    /\ Field(db["posts"].items[FindIndex(db["posts"].items, call.id)], "comments")
         = Undefined

----------------------------------------------------------------------------
(* Writes *)

MutatingOps == {"create", "updateById", "destroyById"}

(* the step of a call that edits the data and issues its write *)
Edits == Invokes /\ Len(pending') > Len(pending)

(* the step that ends the write pending[i] *)
Ends(i) ==
    /\ call = Idle /\ i \in DOMAIN pending
    /\ pending' = RemoveAt(pending, i)
    /\ call' = pending[i].call

(* the edit of the call c that returns result is in data after and was not  *)
(* in data before                                                          *)
EditApplied(before, after, c, result) ==
    LET old == before[c.name].items
        new == after[c.name].items
        index == FindIndex(old, c.id)
    IN  CASE c.op = "create" -> new = Append(old, result.value)
          [] c.op = "updateById" ->
                /\ new = [old EXCEPT ![index] = result.value]
                /\ \A f \in DOMAIN c.item \ {"id"} : result.value[f] = c.item[f]
          [] c.op = "destroyById" ->
                /\ result.value = old[index]
                /\ Len(new) < Len(old)
                /\ \A n \in ListsOf(after) \ {c.name} :
                   \A k \in DOMAIN after[n].items :
                      Field(after[n].items[k], foreignKeyOf(c.name)) # Str(c.id)

(* C17: a mutating call has edited the data when it issues its write, the   *)
(* write is handed the edited data, and when the write fails the call       *)
(* throws the error and the data stays as edited: nothing is rolled back   *)
(* and the adapter holds what it held.                                      *)
C17_FailedWriteKeepsEdit ==
    [][/\ Edits =>
            /\ call'.op \in MutatingOps
            /\ EditApplied(db, db', call', ret')
            /\ pending'[Len(pending')] = Write(call', ret', db')
       /\ \A i \in DOMAIN pending : (Ends(i) /\ persisted' # pending[i].data) =>
            /\ ret' = WriteError
            /\ status' = 500
            /\ db' = db
            /\ persisted' = persisted
            /\ i = Len(pending) => db' = pending[i].data]_vars

(* the write of a create has failed: the created record is in the data,    *)
(* the adapter does not hold it and the call has thrown                    *)
C17_Witness ==
    /\ call.op = "create" /\ ret = WriteError /\ status = 500
    /\ Len(db[call.name].items) > Len(persisted[call.name].items)
    /\ Field(db[call.name].items[Len(db[call.name].items)], "title") = Str("new post")

(* C18: when calls overlap, each edit is made on the data at the step of    *)
(* its call, on top of the edits of the calls whose writes are pending: the *)
(* lookup of a call and the result of a read are those of the data as       *)
(* edited so far, and the end of a write, in whatever order the writes end  *)
(* and whether they succeed, leaves the data as it is.                      *)
C18_EditsApplyInCallOrder ==
    [][/\ Edits => EditApplied(db, db', call', ret')
       /\ (Invokes /\ call'.op \in {"findById", "updateById", "destroyById"}) =>
            (ret' = UndefinedResult) = (FindIndex(db[call'.name].items, call'.id) = 0)
       /\ (Invokes /\ ~Edits) => db' = db
       /\ Calls("findById") /\ ret' # UndefinedResult =>
            ret' = Obj(db[call'.name].items[FindIndex(db[call'.name].items, call'.id)])
       /\ Calls("find") => ret' = db[call'.name]
       /\ \A i \in DOMAIN pending : Ends(i) => db' = db]_vars

(* the write of an updateById has ended before the write of the create it   *)
(* overlapped, and the updateById had found the record the create made      *)
C18_Witness ==
    /\ Len(pending) = 1 /\ pending[1].call.op = "create"
    /\ call.op = "updateById" /\ ret.kind = "item"
    /\ call.id = pending[1].ret.value["id"].s
    /\ persisted = db
    /\ Field(db["posts"].items[Len(db["posts"].items)], "title") = Str("updated post")

----------------------------------------------------------------------------
(* The HTTP boundary *)

(* the calls that are requests: has and update are calls of no route *)
IsRequest(c) == c.op \notin {"", "has", "update"}

(* the request is on /:name/:id *)
OnItem(c) == \/ c.op \in {"findById", "updateById", "destroyById"}
             \/ (c.op \in {"PATCH", "PUT", "POST", "DELETE"} /\ c.id # "")

(* the collection, or the record, the request is on exists *)
Exists(data, c) ==
    /\ has(data, c.name)
    /\ OnItem(c) => (isArray(data[c.name]) /\ FindIndex(data[c.name].items, c.id) # 0)

(* the step that answers a request without awaiting a write *)
Answers == Invokes /\ IsRequest(call') /\ status' # 0

(* C19: a request whose call returns undefined is answered 404 and one      *)
(* whose call returns a value 200, or 201 for a POST that creates; a GET on *)
(* an existing collection or record, a PUT on an existing record or         *)
(* singleton collection and a DELETE on an existing record are answered     *)
(* 200, and every request on an unknown collection, an unknown id or a POST *)
(* on an item path 404 (the requests here pass no inherited name and no     *)
(* _embed).                                                                 *)
C19_StatusOfResult ==
    [][/\ (Answers /\ call'.name \notin ProtoNames /\ call'.query.embed = NoArg) =>
            /\ ret' = UndefinedResult => status' = 404
            /\ ret'.kind \in {"item", "array"} =>
                    status' = IF methodOf(call'.op) = "POST" THEN 201 ELSE 200
            /\ (methodOf(call'.op) = "GET" /\ Exists(db, call')) => status' = 200
            /\ (methodOf(call'.op) = "PUT" /\ Exists(db, call')
                    /\ (OnItem(call') \/ db[call'.name].kind = "item")) => status' = 200
            /\ ~Exists(db, call') => status' = 404
            /\ (methodOf(call'.op) = "POST" /\ OnItem(call')) => status' = 404
       /\ \A i \in DOMAIN pending : (Ends(i) /\ ret' # WriteError) =>
            status' = IF call'.op = "create" THEN 201 ELSE 200
       /\ (Edits /\ call'.name \notin ProtoNames) =>
            /\ Exists(db, call')
            /\ call'.op \in {"updateById", "destroyById"} \/
               (call'.op = "create" /\ Len(db'[call'.name].items) > Len(db[call'.name].items))]_vars

(* C20: a PUT and a PATCH on an existing list record and on an existing     *)
(* singleton collection update it and are answered 200, and a PUT or PATCH  *)
(* on an unknown id is answered 404.                                        *)
C20_PutAndPatchUpdate ==
    [][(/\ Invokes /\ IsRequest(call')
        /\ methodOf(call'.op) \in {"PUT", "PATCH"}
        /\ has(db, call'.name))
        => IF OnItem(call')
           THEN isArray(db[call'.name]) =>
                IF FindIndex(db[call'.name].items, call'.id) # 0
                THEN Edits /\ EditApplied(db, db', [call' EXCEPT !.op = "updateById"], ret')
                ELSE status' = 404
           ELSE db[call'.name].kind = "item" => status' = 200]_vars

----------------------------------------------------------------------------
(* find without pagination *)

(* C21: find returns a singleton collection as it is whatever the query,    *)
(* undefined for a name that is no collection, and for a list collection    *)
(* and a query without pagination the list of its records itself, which is  *)
(* the collection in its order of insertion when the query has no filter,   *)
(* no sort and no _embed.                                                   *)
C21_FindReturnsCollection ==
    [][Calls("find") =>
        /\ ~has(db, call'.name) => ret' = UndefinedResult
        /\ (has(db, call'.name) /\ db[call'.name].kind = "item") => ret' = db[call'.name]
        /\ (/\ has(db, call'.name) /\ isArray(db[call'.name])
            /\ call'.query.page = Undefined /\ call'.query.per_page = Undefined
            /\ ListsOrAbsent(db, Embeds(call'.query))) =>
                /\ ret'.kind = "array"
                /\ (/\ call'.query.filter = <<>> /\ call'.query.sort = Undefined
                    /\ call'.query.embed = NoArg) => ret' = db[call'.name]]_vars

----------------------------------------------------------------------------
(* The writes of the mutating calls *)

(* the step of a mutating call that returns a record *)
Mutates == Invokes /\ call'.op \in MutatingOps /\ ret'.kind = "item"

(* C22: a create, updateById or destroyById that returns a record issues    *)
(* one write, and issues it with the data as edited: for destroyById with   *)
(* the record removed, the references to it null and the dependents that    *)
(* have a null reference deleted; every other call, and every step that is  *)
(* no call, issues none.                                                    *)
C22_OneWriteAfterEdit ==
    [][/\ Mutates =>
            /\ nwrites' = nwrites + 1
            /\ Len(pending') = Len(pending) + 1
            /\ SubSeq(pending', 1, Len(pending)) = pending
            /\ pending'[Len(pending')].call = call'
            /\ pending'[Len(pending')].data = db'
            /\ EditApplied(db, db', call', ret')
            /\ call'.op = "destroyById" =>
                \A n \in DependentsOf(call') \cap ListsOf(db') :
                \A k \in DOMAIN db'[n].items :
                    Field(db'[n].items[k], foreignKeyOf(call'.name)) # Null
       /\ (Invokes /\ ~Mutates) => (nwrites' = nwrites /\ pending' = pending)
       /\ ~Invokes => (nwrites' = nwrites /\ Len(pending') <= Len(pending))]_vars

(* a destroyById with the dependents comments has deleted a comment and    *)
(* its one write, in flight, carries the data without it                   *)
C22_Witness ==
    /\ call.op = "destroyById" /\ call.arg = StrArg("comments") /\ ret.kind = "item"
    /\ nwrites = 1 /\ Len(pending) = 1 /\ pending[1].data = db
    /\ has(db, "comments") /\ has(persisted, "comments")
    /\ Len(db["comments"].items) < Len(persisted["comments"].items)

(* C23: no step of the Service changes the names of the collections or the  *)
(* kind of a collection, and none changes a singleton collection.           *)
C23_KindsInvariant ==
    [][/\ DOMAIN db' = DOMAIN db
       /\ \A name \in DOMAIN db :
            /\ db'[name].kind = db[name].kind
            /\ db[name].kind = "item" => db'[name] = db[name]]_vars

(* a destroyById that names the singleton collection among its dependents  *)
(* has removed a record and the singleton is what it was                   *)
C23_Witness ==
    /\ call.op = "destroyById" /\ ret.kind = "item"
    /\ "object" \in DependentsOf(call)
    /\ has(db, "object") /\ db["object"] = Obj(obj)
    /\ isArray(db["posts"]) /\ isArray(db["comments"])

----------------------------------------------------------------------------
(* The file watcher *)

(* C24: writing is true exactly while a write is in flight, so that a       *)
(* change of the file made by a write of the server never makes the watcher *)
(* read the file, and a change made from outside while no write is in       *)
(* flight always does.                                                      *)
C24_WritingWhileInFlight ==
    /\ writing = (pending # <<>>)
    /\ watched.cause = "own" => ~watched.read
    /\ watched.cause = "external" => watched.read

(* every record of every list has a string id that findById finds it by *)
AllFound(data) ==
    \A name \in ListsOf(data) : \A i \in DOMAIN data[name].items :
        /\ IsNonEmptyString(IdOf(data[name].items[i]))
        /\ findByIdResult(data, name, IdOf(data[name].items[i]).s, NoQuery).kind = "item"

(* C25: once every record of every list has a string id that findById finds *)
(* it by, no create, updateById, destroyById or reload of the file by the   *)
(* watcher makes it otherwise.                                              *)
C25_IdsStayStrings ==
    [][(constructed /\ AllFound(db)) => AllFound(db')]_vars

(* C26: when the writes end in the order they were issued and none fails,   *)
(* and no reload occurs, the adapter holds the data whenever a write was    *)
(* issued and none is pending.                                              *)
C26_PersistedEqualsStore ==
    (nwrites > 0 /\ pending = <<>>) => persisted = db

(* the last of the writes of overlapping calls has ended: the record that  *)
(* was created and then updated is in the data and in what the adapter     *)
(* holds                                                                   *)
C26_Witness ==
    /\ nwrites = MaxWrites + 1 /\ pending = <<>>
    /\ call.op = "updateById" /\ ret.kind = "item"
    /\ Len(db["posts"].items) = 2
    /\ Field(db["posts"].items[2], "title") = Str("updated post")
    /\ persisted = db

====
